---- MODULE Spec2Model ----
(***************************************************************************)
(* A model of package rpionewire (src/rpionewire.go): discovery of DS1820   *)
(* one wire sensors under /sys/bus/w1/devices (LoadDevices) and the reading *)
(* of their w1_slave status files (ReadDevices).                            *)
(*                                                                          *)
(* Strings are sequences of one-character strings, so that the two regular  *)
(* expressions and strings.Contains are computed character by character.    *)
(* A uint64 is the sequence of its 8 bytes, least significant byte first,   *)
(* which is also the order binary.LittleEndian reads them from the file.    *)
(* A float64 temperature v/1000 is the pair <<v \div 1000, v % 1000>>: the  *)
(* whole degrees and the thousandths.                                       *)
(***************************************************************************)
EXTENDS Integers, Sequences, FiniteSets, TLC

VARIABLES
    driver,       \* outcome of the modprobe command: "ok" or "fail"
    devdir,       \* /sys/bus/w1/devices: NoDir, Unreadable or the listing
    idFiles,      \* name -> content of /sys/bus/w1/devices/<name>/id
    statusFiles,  \* name -> lines of /sys/bus/w1/devices/<name>/w1_slave
    registry,     \* the caller's []*DS1820
    lastNew,      \* what the most recent newDS1820 call returned
    lastLoad,     \* what the most recent LoadDevices call returned, while the
                  \* bus is still as the call found it
    lastRead,     \* what the most recent ReadDevices call did and returned,
                  \* while the files it read are still as it read them
    handles       \* the number of file handles the process holds open

vars == <<driver, devdir, idFiles, statusFiles, registry, lastNew, lastLoad, lastRead,
          handles>>

(***************************************************************************)
(* Bounds of the model.                                                     *)
(***************************************************************************)
\* lines a w1_slave file holds at most
MaxLines == 3
\* entries the device directory holds at most
MaxEntries == 3

(***************************************************************************)
(* Characters and strings.                                                  *)
(***************************************************************************)
Digit == {"0", "1", "2", "3", "4", "5", "6", "7", "8", "9"}

Lower == {"a", "b", "c", "d", "e", "f", "g", "h", "i", "j", "k", "l", "m",
          "n", "o", "p", "q", "r", "s", "t", "u", "v", "w", "x", "y", "z"}

Upper == {"A", "B", "C", "D", "E", "F", "G", "H", "I", "J", "K", "L", "M",
          "N", "O", "P", "Q", "R", "S", "T", "U", "V", "W", "X", "Y", "Z"}

\* the regexp class \w
WordChar == Digit \cup Lower \cup Upper \cup {"_"}

\* the regexp class \s
SpaceChar == {" ", "\t", "\n", "\f", "\r"}

\* the regexp class \d
DigitChar == Digit

\* s[p..] starts with t
HasAt(s, p, t) ==
    /\ p >= 1
    /\ p + Len(t) - 1 <= Len(s)
    /\ \A i \in 1..Len(t) : s[p + i - 1] = t[i]

\* length of the longest run of characters of class starting at s[p]
RECURSIVE RunLen(_, _, _)
RunLen(s, p, class) ==
    IF p <= Len(s) /\ s[p] \in class THEN 1 + RunLen(s, p + 1, class) ELSE 0

\* strings.Contains
Contains(s, substr) == \E p \in 1..(Len(s) + 1) : HasAt(s, p, substr)

Yes == <<"Y", "E", "S">>

No == <<"N", "O">>

CrcPrefix == <<"c", "r", "c", "=">>

SamplePrefix == <<"t", "=">>

BusMasterMarker == <<"w", "1", "_", "b", "u", "s", "_", "m", "a", "s", "t", "e", "r">>

(***************************************************************************)
(* _CrcCheckRegex = `crc=\w+\s(YES|NO)`, as FindStringSubmatch uses it: the *)
(* leftmost match; <<>> when there is none, else <<match, group 1>>.  \w+   *)
(* must be followed by \s, which is no \w, so it takes the whole run.       *)
(***************************************************************************)
CrcMatchAt(line, p) ==
    LET k == RunLen(line, p + 4, WordChar)
        q == p + 4 + k
    IN  /\ HasAt(line, p, CrcPrefix)
        /\ k >= 1
        /\ q <= Len(line)
        /\ line[q] \in SpaceChar
        /\ (HasAt(line, q + 1, Yes) \/ HasAt(line, q + 1, No))

\* `crc=\w+\s(YES)`: the alternative NO left out of the pattern
CrcCheckRegexYesOnly(line) ==
    LET starts == {p \in 1..Len(line) :
                      /\ CrcMatchAt(line, p)
                      /\ HasAt(line, p + 5 + RunLen(line, p + 4, WordChar), Yes)}
    IN  IF starts = {} THEN <<>>
        ELSE LET p == CHOOSE x \in starts : \A y \in starts : x <= y
                 q == p + 4 + RunLen(line, p + 4, WordChar)
             IN  <<SubSeq(line, p, q + Len(Yes)), Yes>>

CrcCheckRegex(line) ==
    LET starts == {p \in 1..Len(line) : CrcMatchAt(line, p)}
    IN  IF starts = {} THEN <<>>
        ELSE LET p == CHOOSE x \in starts : \A y \in starts : x <= y
                 q == p + 4 + RunLen(line, p + 4, WordChar)
                 verdict == IF HasAt(line, q + 1, Yes) THEN Yes ELSE No
             IN  <<SubSeq(line, p, q + Len(verdict)), verdict>>

(***************************************************************************)
(* _TestSampleRegex = `.*\st=(\d+)`: the greedy .* runs to the last place   *)
(* where a space, "t=" and a digit follow, and (\d+) takes the whole run of *)
(* digits there.  <<>> when there is no match, else <<match, group 1>>.     *)
(***************************************************************************)
SampleMatchAt(line, q) ==
    /\ q >= 1
    /\ q + 3 <= Len(line)
    /\ line[q] \in SpaceChar
    /\ HasAt(line, q + 1, SamplePrefix)
    /\ line[q + 3] \in DigitChar

TestSampleRegex(line) ==
    LET places == {q \in 1..Len(line) : SampleMatchAt(line, q)}
    IN  IF places = {} THEN <<>>
        ELSE LET q == CHOOSE x \in places : \A y \in places : x >= y
                 k == RunLen(line, q + 3, DigitChar)
             IN  <<SubSeq(line, 1, q + 2 + k), SubSeq(line, q + 3, q + 2 + k)>>

(***************************************************************************)
(* strconv.ParseInt(s, 10, 64) of a string of digits: the value, or a range *)
(* error when it exceeds 2^63 - 1.                                          *)
(***************************************************************************)
DigitValue(c) ==
    CASE c = "0" -> 0 [] c = "1" -> 1 [] c = "2" -> 2 [] c = "3" -> 3
      [] c = "4" -> 4 [] c = "5" -> 5 [] c = "6" -> 6 [] c = "7" -> 7
      [] c = "8" -> 8 [] c = "9" -> 9

RECURSIVE DecimalValue(_)
DecimalValue(s) ==
    IF s = <<>> THEN 0
    ELSE 10 * DecimalValue(SubSeq(s, 1, Len(s) - 1)) + DigitValue(s[Len(s)])

RECURSIVE StripZeros(_)
StripZeros(s) ==
    IF Len(s) > 1 /\ s[1] = "0" THEN StripZeros(Tail(s)) ELSE s

\* the digits of 2^63 - 1
MaxInt64Digits ==
    <<"9", "2", "2", "3", "3", "7", "2", "0", "3", "6", "8", "5", "4", "7",
      "7", "5", "8", "0", "7">>

\* a < b for two digit strings of the same length
RECURSIVE DigitsLess(_, _)
DigitsLess(a, b) ==
    IF a = <<>> THEN FALSE
    ELSE IF a[1] # b[1] THEN DigitValue(a[1]) < DigitValue(b[1])
    ELSE DigitsLess(Tail(a), Tail(b))

ExceedsInt64(s) ==
    LET d == StripZeros(s)
    IN  \/ Len(d) > Len(MaxInt64Digits)
        \/ Len(d) = Len(MaxInt64Digits) /\ DigitsLess(MaxInt64Digits, d)

Nil == "nil"

ParseInt(s) ==
    IF ExceedsInt64(s)
    THEN [v |-> 0, err |-> "strconv.ParseInt: value out of range"]
    ELSE [v |-> DecimalValue(s), err |-> Nil]

\* float64(v) / 100: the wrong scale
DivideBy100(v) == <<v \div 100, (v % 100) * 10>>

\* float64(v) / 1000, as whole degrees and thousandths
DivideBy1000(v) == <<v \div 1000, v % 1000>>

\* the zero value of a float64
ZeroTemp == <<0, 0>>

(***************************************************************************)
(* Files.  A file is absent or holds data: the bytes of an id file, the     *)
(* lines of a w1_slave file.  The directory is absent, unreadable or lists  *)
(* its entries in the order Readdirnames returns them.  A read of a file    *)
(* can fail after the data: at the end of a line ("boundary"), or inside    *)
(* the last line, which then comes without its end ("midline").             *)
(***************************************************************************)
NoFile == [exists |-> FALSE, data |-> <<>>, fault |-> "none"]

File(data) == [exists |-> TRUE, data |-> data, fault |-> "none"]

\* a file whose read fails after data
Faulty(data, fault) == [exists |-> TRUE, data |-> data, fault |-> fault]

NoDir == [state |-> "absent", names |-> <<>>]

Unreadable == [state |-> "unreadable", names |-> <<>>]

Dir(names) == [state |-> "ok", names |-> names]

\* the directory /sys/bus/w1/devices, as the file an event is about
DevicesDir == <<"d", "e", "v", "i", "c", "e", "s">>

\* one thing a call does to the host: run modprobe, open, read or close a file
Ev(op, file) == [op |-> op, file |-> file]

\* the file handles a log of events leaves open
RECURSIVE OpenAfter(_)
OpenAfter(log) ==
    IF log = <<>> THEN 0
    ELSE OpenAfter(SubSeq(log, 1, Len(log) - 1))
             + (IF log[Len(log)].op = "open" THEN 1
                ELSE IF log[Len(log)].op = "close" THEN -1 ELSE 0)

(***************************************************************************)
(* uint64 arithmetic on 8 bytes, least significant first.                   *)
(***************************************************************************)
RECURSIVE BitAnd(_, _, _)
BitAnd(a, b, bits) ==
    IF bits = 0 THEN 0
    ELSE (a % 2) * (b % 2) + 2 * BitAnd(a \div 2, b \div 2, bits - 1)

\* v & m
And64(v, m) == [i \in 1..Len(v) |-> BitAnd(v[i], m[i], 8)]

\* v >> 8
ShiftRight8(v) == [i \in 1..Len(v) |-> IF i < Len(v) THEN v[i + 1] ELSE 0]

\* uint8(v)
Uint8(v) == v[1]

\* 0xff
MaskFamily == <<255, 0, 0, 0, 0, 0, 0, 0>>

\* 0xffffffffffffff00: the CRC byte left in
MaskSerialWide == <<0, 255, 255, 255, 255, 255, 255, 255>>

\* 0x00ffffffffffff00
MaskSerial == <<0, 255, 255, 255, 255, 255, 255, 0>>

\* the zero uint64
ZeroWord == <<0, 0, 0, 0, 0, 0, 0, 0>>

\* 0x10
modelDS18S20 == 16

\* 0x28
modelDS18B20 == 40

\* binary.Read(idFile, binary.LittleEndian, &idFileContent): the first 8
\* bytes, or an error when the file is shorter
BinaryRead(data) ==
    IF Len(data) >= Len(ZeroWord)
    THEN [v |-> SubSeq(data, 1, Len(ZeroWord)), err |-> Nil]
    ELSE IF Len(data) = 0 THEN [v |-> ZeroWord, err |-> "EOF"]
    ELSE [v |-> ZeroWord, err |-> "unexpected EOF"]

(***************************************************************************)
(* The device record and its construction.                                  *)
(***************************************************************************)
\* new(DS1820)
DS1820 == [ID |-> ZeroWord, Name |-> <<>>, DeviceType |-> "", LastTemp |-> ZeroTemp]

\* getID with the default case of its switch left out
getIDNoDefault(d, ids) ==
    LET idFile == ids[d.Name]
    IN  IF ~idFile.exists
        THEN [d |-> d, err |-> "open id: no such file or directory"]
        ELSE LET rd == BinaryRead(idFile.data)
             IN  IF rd.err # Nil
                 THEN [d |-> d, err |-> "Error decoding device id"]
                 ELSE LET idFileContent == rd.v
                          devicetype == Uint8(And64(idFileContent, MaskFamily))
                          serial == ShiftRight8(And64(idFileContent, MaskSerial))
                      IN  IF devicetype = modelDS18B20
                          THEN [d |-> [d EXCEPT !.DeviceType = "DS18B20", !.ID = serial],
                                err |-> Nil]
                          ELSE IF devicetype = modelDS18S20
                          THEN [d |-> [d EXCEPT !.DeviceType = "DS18S20", !.ID = serial],
                                err |-> Nil]
                          ELSE [d |-> [d EXCEPT !.ID = serial], err |-> Nil]

\* (d *DS1820) getID: the record as the call leaves it, and the error
getID(d, ids) ==
    LET idFile == ids[d.Name]
    IN  IF ~idFile.exists
        THEN [d |-> d, err |-> "open id: no such file or directory"]
        ELSE LET rd == BinaryRead(idFile.data)
             IN  IF rd.err # Nil
                 THEN [d |-> d, err |-> "Error decoding device id"]
                 ELSE LET idFileContent == rd.v
                          devicetype == Uint8(And64(idFileContent, MaskFamily))
                          serial == ShiftRight8(And64(idFileContent, MaskSerial))
                      IN  IF devicetype = modelDS18B20
                          THEN [d |-> [d EXCEPT !.DeviceType = "DS18B20", !.ID = serial],
                                err |-> Nil]
                          ELSE IF devicetype = modelDS18S20
                          THEN [d |-> [d EXCEPT !.DeviceType = "DS18S20", !.ID = serial],
                                err |-> Nil]
                          ELSE [d |-> d,
                                err |-> "Error decoding device id: Unrecognized one wire family code"]

\* what getID does to its id file: os.OpenFile, and when that succeeds
\* binary.Read and the deferred Close that runs as getID returns
IdFileEvents(name, ids) ==
    IF ids[name].exists
    THEN <<Ev("open", name), Ev("read", name), Ev("close", name)>>
    ELSE <<Ev("open failed", name)>>

\* newDS1820: isNil says that the pointer returned is nil
newDS1820(name, ids) ==
    LET device == [DS1820 EXCEPT !.Name = name]
        r == getID(device, ids)
    IN  IF r.err # Nil
        THEN [isNil |-> TRUE, device |-> DS1820, err |-> r.err,
              log |-> IdFileEvents(name, ids)]
        ELSE [isNil |-> FALSE, device |-> r.d, err |-> Nil,
              log |-> IdFileEvents(name, ids)]

(***************************************************************************)
(* Discovery.                                                               *)
(***************************************************************************)
\* names[i] != "w1_bus_master1" in place of strings.Contains
IsDeviceExact(name) ==
    name # <<"w", "1", "_", "b", "u", "s", "_", "m", "a", "s", "t", "e", "r", "1">>

IsDevice(name) == ~Contains(name, BusMasterMarker)

\* findDevices going on when cmd.Run() fails
findDevicesIgnoreModprobe(drv, dir) ==
    IF dir.state = "absent"
    THEN [names |-> <<>>, err |-> "open /sys/bus/w1/devices: no such file or directory",
          log |-> <<Ev("modprobe", <<>>), Ev("open failed", DevicesDir)>>]
    ELSE IF dir.state = "unreadable"
    THEN [names |-> <<>>, err |-> "readdirent: input/output error",
          log |-> <<Ev("modprobe", <<>>), Ev("open", DevicesDir),
                    Ev("read", DevicesDir), Ev("close", DevicesDir)>>]
    ELSE IF Len(dir.names) <= 1
    THEN [names |-> <<>>, err |-> "files in /sys/bus/w1/devies: no devices found",
          log |-> <<Ev("modprobe", <<>>), Ev("open", DevicesDir),
                    Ev("read", DevicesDir), Ev("close", DevicesDir)>>]
    ELSE [names |-> SelectSeq(dir.names, IsDevice), err |-> Nil,
          log |-> <<Ev("modprobe", <<>>), Ev("open", DevicesDir),
                    Ev("read", DevicesDir), Ev("close", DevicesDir)>>]

\* findDevices testing len(devicelist) == 0 after the filter, in place of
\* len(names) <= 1 before it
findDevicesCountFiltered(drv, dir) ==
    IF drv # "ok"
    THEN [names |-> <<>>, err |-> "modprobe: exit status 1",
          log |-> <<Ev("modprobe", <<>>)>>]
    ELSE IF dir.state = "absent"
    THEN [names |-> <<>>, err |-> "open /sys/bus/w1/devices: no such file or directory",
          log |-> <<Ev("modprobe", <<>>), Ev("open failed", DevicesDir)>>]
    ELSE IF dir.state = "unreadable"
    THEN [names |-> <<>>, err |-> "readdirent: input/output error",
          log |-> <<Ev("modprobe", <<>>), Ev("open", DevicesDir),
                    Ev("read", DevicesDir), Ev("close", DevicesDir)>>]
    ELSE IF Len(SelectSeq(dir.names, IsDevice)) = 0
    THEN [names |-> <<>>, err |-> "files in /sys/bus/w1/devies: no devices found",
          log |-> <<Ev("modprobe", <<>>), Ev("open", DevicesDir),
                    Ev("read", DevicesDir), Ev("close", DevicesDir)>>]
    ELSE [names |-> SelectSeq(dir.names, IsDevice), err |-> Nil,
          log |-> <<Ev("modprobe", <<>>), Ev("open", DevicesDir),
                    Ev("read", DevicesDir), Ev("close", DevicesDir)>>]

\* findDevices: the names, the error, and what it did to the host in order:
\* modprobe, os.Open, Readdirnames, and the deferred dir.Close as it returns
findDevices(drv, dir) ==
    IF drv # "ok"
    THEN [names |-> <<>>, err |-> "modprobe: exit status 1",
          log |-> <<Ev("modprobe", <<>>)>>]
    ELSE IF dir.state = "absent"
    THEN [names |-> <<>>, err |-> "open /sys/bus/w1/devices: no such file or directory",
          log |-> <<Ev("modprobe", <<>>), Ev("open failed", DevicesDir)>>]
    ELSE IF dir.state = "unreadable"
    THEN [names |-> <<>>, err |-> "readdirent: input/output error",
          log |-> <<Ev("modprobe", <<>>), Ev("open", DevicesDir),
                    Ev("read", DevicesDir), Ev("close", DevicesDir)>>]
    ELSE IF Len(dir.names) <= 1
    THEN [names |-> <<>>, err |-> "files in /sys/bus/w1/devies: no devices found",
          log |-> <<Ev("modprobe", <<>>), Ev("open", DevicesDir),
                    Ev("read", DevicesDir), Ev("close", DevicesDir)>>]
    ELSE [names |-> SelectSeq(dir.names, IsDevice), err |-> Nil,
          log |-> <<Ev("modprobe", <<>>), Ev("open", DevicesDir),
                    Ev("read", DevicesDir), Ev("close", DevicesDir)>>]

\* the loop of LoadDevices from index i on.  When newDS1820 fails devices[i]
\* is nil, and building the error message reads devices[i].Name: the call
\* panics instead of returning.
RECURSIVE LoadLoop(_, _, _, _, _)
LoadLoop(names, i, devices, ids, log) ==
    IF i > Len(names)
    THEN [outcome |-> "returned", devices |-> devices, err |-> Nil, cause |-> Nil,
          found |-> names, log |-> log]
    ELSE LET r == newDS1820(names[i], ids)
         IN  IF r.err # Nil
             THEN IF r.isNil
                  THEN [outcome |-> "panic", devices |-> <<>>,
                        err |-> "invalid memory address or nil pointer dereference",
                        cause |-> r.err, found |-> names, log |-> log \o r.log]
                  ELSE [outcome |-> "returned", devices |-> <<>>,
                        err |-> "Error opening devices", cause |-> r.err,
                        found |-> names, log |-> log \o r.log]
             ELSE LoadLoop(names, i + 1, Append(devices, r.device), ids, log \o r.log)

\* s back to front
Reverse(s) == [i \in 1..Len(s) |-> s[Len(s) + 1 - i]]

\* LoadDevices walking the names from the last to the first
LoadDevicesCallReversed(drv, dir, ids) ==
    LET f == findDevices(drv, dir)
    IN  IF f.err # Nil
        THEN [outcome |-> "returned", devices |-> <<>>,
              err |-> "Error finding one wire devices", cause |-> f.err,
              found |-> f.names, log |-> f.log]
        ELSE LoadLoop(Reverse(f.names), 1, <<>>, ids, f.log)

\* LoadDevices: how it ended, what it returned, the names findDevices gave
\* it and what the call did to the host
LoadDevicesCall(drv, dir, ids) ==
    LET f == findDevices(drv, dir)
    IN  IF f.err # Nil
        THEN [outcome |-> "returned", devices |-> <<>>,
              err |-> "Error finding one wire devices", cause |-> f.err,
              found |-> f.names, log |-> f.log]
        ELSE LoadLoop(f.names, 1, <<>>, ids, f.log)

(***************************************************************************)
(* Reading.                                                                 *)
(***************************************************************************)
ErrCRC == "CRC mismatch on read"

ErrEOF == "EOF without data from w1"

ErrOpen == "open w1_slave: no such file or directory"

\* the scanner loop body with device.LastTemp += in place of =
ScanStepAccumulate(line, i, temp) ==
    IF i = 0
    THEN LET matches == CrcCheckRegex(line)
         IN  IF Len(matches) > 0 /\ matches[2] # Yes
             THEN [temp |-> temp, err |-> ErrCRC]
             ELSE [temp |-> temp, err |-> Nil]
    ELSE LET matches == TestSampleRegex(line)
         IN  IF Len(matches) > 0
             THEN LET r == ParseInt(matches[2])
                  IN  IF r.err # Nil
                      THEN [temp |-> temp, err |-> r.err]
                      ELSE [temp |-> <<temp[1] + DivideBy1000(r.v)[1],
                                       temp[2] + DivideBy1000(r.v)[2]>>,
                            err |-> Nil]
             ELSE [temp |-> temp, err |-> ErrEOF]

\* the body of the scanner loop for the line scanned after i others: the
\* LastTemp it leaves, and the error it returns with (Nil: the loop goes on)
ScanStep(line, i, temp) ==
    IF i = 0
    THEN LET matches == CrcCheckRegex(line)
         IN  IF Len(matches) > 0 /\ matches[2] # Yes
             THEN [temp |-> temp, err |-> ErrCRC]
             ELSE [temp |-> temp, err |-> Nil]
    ELSE LET matches == TestSampleRegex(line)
         IN  IF Len(matches) > 0
             THEN LET r == ParseInt(matches[2])
                  IN  IF r.err # Nil
                      THEN [temp |-> temp, err |-> r.err]
                      ELSE [temp |-> DivideBy1000(r.v), err |-> Nil]
             ELSE [temp |-> temp, err |-> ErrEOF]

\* the scanner loop of ReadDevices over one file, from the line after the
\* i lines already scanned.  scanner.Scan() returns false when the lines run
\* out and also when a read fails with no part of a line in the buffer: the
\* loop ends and nothing is returned.  When a read fails inside a line,
\* Scan() returns true for the part it has and scanner.Err() is not nil.
RECURSIVE ScanLines(_, _, _, _)
ScanLines(lines, fault, i, temp) ==
    IF i >= Len(lines)
    THEN [temp |-> temp, err |-> Nil]
    ELSE IF fault = "midline" /\ i + 1 = Len(lines)
    THEN [temp |-> temp, err |-> ErrEOF]
    ELSE LET r == ScanStep(lines[i + 1], i, temp)
         IN  IF r.err # Nil THEN r ELSE ScanLines(lines, fault, i + 1, r.temp)

\* the device loop storing a new DS1820 that has the name and the
\* temperature, in place of assigning device.LastTemp
RECURSIVE ReadLoopNewRecord(_, _, _, _)
ReadLoopNewRecord(d, k, files, opened) ==
    IF k > Len(d)
    THEN [d |-> d, err |-> Nil, failedAt |-> 0, opened |-> opened,
          closed |-> Reverse(opened)]
    ELSE LET device == d[k]
             dataFile == files[device.Name]
         IN  IF ~dataFile.exists
             THEN [d |-> d, err |-> ErrOpen, failedAt |-> k, opened |-> opened,
                   closed |-> Reverse(opened)]
             ELSE LET r == ScanLines(dataFile.data, dataFile.fault, 0, device.LastTemp)
                      d2 == [d EXCEPT ![k] = [DS1820 EXCEPT !.Name = device.Name,
                                                            !.LastTemp = r.temp]]
                      op2 == Append(opened, device.Name)
                  IN  IF r.err # Nil
                      THEN [d |-> d2, err |-> r.err, failedAt |-> k, opened |-> op2,
                            closed |-> Reverse(op2)]
                      ELSE ReadLoopNewRecord(d2, k + 1, files, op2)

\* the device loop with a Close that is not deferred: it runs after the
\* scanner loop, where a read that returns an error does not arrive
RECURSIVE ReadLoopCloseAfter(_, _, _, _)
ReadLoopCloseAfter(d, k, files, opened) ==
    IF k > Len(d)
    THEN [d |-> d, err |-> Nil, failedAt |-> 0, opened |-> opened,
          closed |-> opened]
    ELSE LET device == d[k]
             dataFile == files[device.Name]
         IN  IF ~dataFile.exists
             THEN [d |-> d, err |-> ErrOpen, failedAt |-> k, opened |-> opened,
                   closed |-> opened]
             ELSE LET r == ScanLines(dataFile.data, dataFile.fault, 0, device.LastTemp)
                      d2 == [d EXCEPT ![k].LastTemp = r.temp]
                      op2 == Append(opened, device.Name)
                  IN  IF r.err # Nil
                      THEN [d |-> d2, err |-> r.err, failedAt |-> k, opened |-> op2,
                            closed |-> opened]
                      ELSE ReadLoopCloseAfter(d2, k + 1, files, op2)

\* the device loop of ReadDevices from index k on.  opened lists the files
\* opened so far; their deferred Close calls run when ReadDevices returns,
\* on every path, the last opened first: closed.
RECURSIVE ReadLoop(_, _, _, _)
ReadLoop(d, k, files, opened) ==
    IF k > Len(d)
    THEN [d |-> d, err |-> Nil, failedAt |-> 0, opened |-> opened,
          closed |-> Reverse(opened)]
    ELSE LET device == d[k]
             dataFile == files[device.Name]
         IN  IF ~dataFile.exists
             THEN [d |-> d, err |-> ErrOpen, failedAt |-> k, opened |-> opened,
                   closed |-> Reverse(opened)]
             ELSE LET r == ScanLines(dataFile.data, dataFile.fault, 0, device.LastTemp)
                      d2 == [d EXCEPT ![k].LastTemp = r.temp]
                      op2 == Append(opened, device.Name)
                  IN  IF r.err # Nil
                      THEN [d |-> d2, err |-> r.err, failedAt |-> k, opened |-> op2,
                            closed |-> Reverse(op2)]
                      ELSE ReadLoop(d2, k + 1, files, op2)

\* ReadDevices(d)
ReadDevicesCall(d, files) == ReadLoop(d, 1, files, <<>>)

(***************************************************************************)
(* The names, id files and status lines the host serves in this model.      *)
(***************************************************************************)
BusMaster1 == <<"w", "1", "_", "b", "u", "s", "_", "m", "a", "s", "t", "e", "r", "1">>

BusMaster2 == <<"w", "1", "_", "b", "u", "s", "_", "m", "a", "s", "t", "e", "r", "2">>

Sensor1 == <<"2", "8", "-", "0", "0", "0", "0", "a", "a", "b", "b", "c", "c">>

Sensor2 == <<"1", "0", "-", "0", "0", "0", "8", "0", "2", "d", "5", "a", "1">>

Sensors == {Sensor1, Sensor2}

Names == {BusMaster1, BusMaster2, Sensor1, Sensor2}

\* 0x00AABBCCDDEE0F28
IdB20 == <<40, 15, 238, 221, 204, 187, 170, 0>>

\* 0x4D000802D5A110
IdS20 == <<16, 161, 213, 2, 8, 0, 0, 77>>

\* family code 0x22
IdUnknown == <<34, 15, 238, 221, 204, 187, 170, 0>>

IdShort == <<40, 15, 238>>

IdFileSamples == {File(IdB20), File(IdS20), File(IdUnknown), File(IdShort), NoFile}

SerialSamples == {<<15, 238, 221, 204, 187, 170>>, <<0, 0, 0, 0, 0, 0>>,
                  <<255, 255, 255, 255, 255, 255>>}

CrcByteSamples == {0, 90, 255}

IdBlobs ==
    {<<f>> \o s \o <<c>> : f \in 0..255, s \in SerialSamples, c \in CrcByteSamples}
        \cup {IdShort, <<>>, IdB20 \o <<7>>}

CrcYesLine == <<":", " ", "c", "r", "c", "=", "5", "7", " ", "Y", "E", "S">>

CrcNoLine == <<":", " ", "c", "r", "c", "=", "5", "7", " ", "N", "O">>

SampleLine == <<"5", "7", " ", "t", "=", "2", "3", "5", "6", "2">>

NegativeLine == <<"5", "7", " ", "t", "=", "-", "1", "2", "5", "0">>

\* the lines the driver writes
LineSet == {CrcYesLine, CrcNoLine, SampleLine}

\* a sample line that a failing read cuts short: "57 t=23"
PartialLine == SubSeq(SampleLine, 1, 7)

\* status files whose read fails: at once, after the CRC line, inside the
\* first line, inside the sample line, and after the sample line
FaultySamples ==
    {Faulty(<<>>, "boundary"),
     Faulty(<<CrcYesLine>>, "boundary"),
     Faulty(<<SubSeq(CrcYesLine, 1, 6)>>, "midline"),
     Faulty(<<CrcYesLine, PartialLine>>, "midline"),
     Faulty(<<CrcYesLine, SampleLine>>, "boundary")}

\* the lines the driver writes when it is freezing
SignedLineSet == {CrcYesLine, SampleLine, NegativeLine}

NotNew == [called |-> FALSE, isNil |-> TRUE, device |-> DS1820, err |-> Nil, log |-> <<>>]

NotLoaded ==
    [called |-> FALSE, outcome |-> "none", err |-> Nil, cause |-> Nil,
     found |-> <<>>, log |-> <<>>]

NotRead ==
    [called |-> FALSE, err |-> Nil, failedAt |-> 0, opened |-> <<>>, closed |-> <<>>,
     pre |-> <<>>]

(***************************************************************************)
(* The calls.                                                               *)
(***************************************************************************)
\* newDS1820(Sensor1)
NewDS1820 ==
    /\ lastNew' = [called |-> TRUE] @@ newDS1820(Sensor1, idFiles)
    /\ handles' = handles + OpenAfter(newDS1820(Sensor1, idFiles).log)
    /\ UNCHANGED <<driver, devdir, idFiles, statusFiles, registry, lastLoad, lastRead>>

\* devices, err := LoadDevices(); a panic leaves the caller's devices as it was
LoadDevices ==
    LET r == LoadDevicesCall(driver, devdir, idFiles)
    IN  /\ lastLoad' = [called |-> TRUE, outcome |-> r.outcome, err |-> r.err,
                        cause |-> r.cause, found |-> r.found, log |-> r.log]
        /\ registry' = IF r.outcome = "returned" THEN r.devices ELSE registry
        /\ lastRead' = NotRead
        /\ handles' = handles + OpenAfter(r.log)
        /\ UNCHANGED <<driver, devdir, idFiles, statusFiles, lastNew>>

\* err := ReadDevices(devices)
ReadDevices ==
    LET r == ReadDevicesCall(registry, statusFiles)
    IN  /\ registry' = r.d
        /\ lastRead' = [called |-> TRUE, err |-> r.err, failedAt |-> r.failedAt,
                        opened |-> r.opened, closed |-> r.closed, pre |-> registry]
        /\ handles' = handles + Len(lastRead'.opened) - Len(lastRead'.closed)
        /\ UNCHANGED <<driver, devdir, idFiles, statusFiles, lastNew, lastLoad>>

(***************************************************************************)
(* The host: the kernel driver and the bus.                                 *)
(***************************************************************************)
\* a sensor is plugged in: its entry appears in the directory
HostPlug ==
    \E name \in Names :
        /\ devdir.state = "ok"
        /\ Len(devdir.names) < MaxEntries
        /\ \A i \in 1..Len(devdir.names) : devdir.names[i] # name
        /\ devdir' = Dir(Append(devdir.names, name))
        /\ UNCHANGED <<driver, idFiles, statusFiles, registry, lastNew, lastRead, handles>>
        /\ lastLoad' = NotLoaded

\* an entry disappears from the directory
HostUnplug ==
    \E i \in 1..Len(devdir.names) :
        /\ devdir.state = "ok"
        /\ devdir' = Dir(SubSeq(devdir.names, 1, i - 1)
                           \o SubSeq(devdir.names, i + 1, Len(devdir.names)))
        /\ UNCHANGED <<driver, idFiles, statusFiles, registry, lastNew, lastRead, handles>>
        /\ lastLoad' = NotLoaded

\* the directory goes away, becomes unreadable, or comes back empty
HostDirFault ==
    \E d \in {NoDir, Unreadable, Dir(<<>>)} :
        /\ devdir # d
        /\ devdir.names = <<>>
        /\ devdir' = d
        /\ UNCHANGED <<driver, idFiles, statusFiles, registry, lastNew, lastRead, handles>>
        /\ lastLoad' = NotLoaded

\* modprobe starts or stops working
HostDriver ==
    /\ driver' = IF driver = "ok" THEN "fail" ELSE "ok"
    /\ UNCHANGED <<devdir, idFiles, statusFiles, registry, lastNew, lastRead, handles>>
    /\ lastLoad' = NotLoaded

\* the id file of a sensor is replaced
HostWriteId ==
    \E name \in Sensors, f \in IdFileSamples :
        /\ idFiles[name] # f
        /\ idFiles' = [idFiles EXCEPT ![name] = f]
        /\ UNCHANGED <<driver, devdir, statusFiles, registry, lastNew, lastRead, handles>>
        /\ lastLoad' = NotLoaded

\* the driver writes one more line to a sensor's status file
HostAppend ==
    \E name \in Sensors, line \in LineSet :
        /\ statusFiles[name].exists
        /\ statusFiles[name].fault = "none"
        /\ Len(statusFiles[name].data) < MaxLines
        /\ statusFiles' = [statusFiles EXCEPT ![name] = File(Append(@.data, line))]
        /\ lastRead' = NotRead
        /\ UNCHANGED <<driver, devdir, idFiles, registry, lastNew, lastLoad, handles>>

\* the driver empties (or creates) a sensor's status file
HostTruncate ==
    \E name \in Sensors :
        /\ statusFiles[name] # File(<<>>)
        /\ statusFiles' = [statusFiles EXCEPT ![name] = File(<<>>)]
        /\ lastRead' = NotRead
        /\ UNCHANGED <<driver, devdir, idFiles, registry, lastNew, lastLoad, handles>>

\* the driver writes one more line to a sensor's status file, in the cold
HostAppendSigned ==
    \E name \in Sensors, line \in SignedLineSet :
        /\ statusFiles[name].exists
        /\ Len(statusFiles[name].data) < MaxLines
        /\ statusFiles' = [statusFiles EXCEPT ![name] = File(Append(@.data, line))]
        /\ lastRead' = NotRead
        /\ UNCHANGED <<driver, devdir, idFiles, registry, lastNew, lastLoad, handles>>

\* a sensor's status file goes away
HostRemove ==
    \E name \in Sensors :
        /\ statusFiles[name].exists
        /\ statusFiles' = [statusFiles EXCEPT ![name] = NoFile]
        /\ lastRead' = NotRead
        /\ UNCHANGED <<driver, devdir, idFiles, registry, lastNew, lastLoad, handles>>

\* reads of a sensor's status file start to fail
HostFault ==
    \E name \in Sensors, f \in FaultySamples :
        /\ statusFiles[name] # f
        /\ statusFiles' = [statusFiles EXCEPT ![name] = f]
        /\ lastRead' = NotRead
        /\ UNCHANGED <<driver, devdir, idFiles, registry, lastNew, lastLoad, handles>>

(***************************************************************************)
(* Specifications.                                                          *)
(*   SpecID    newDS1820 over id files of every family code                 *)
(*   SpecLoad  LoadDevices while the host changes the bus                   *)
(*   Spec      ReadDevices on the registry LoadDevices returned, while the  *)
(*             host changes the status files                                *)
(*   SpecSigned  the same, with samples below zero                          *)
(*   SpecFault   the same, with reads that fail                             *)
(*   SpecHandles LoadDevices and ReadDevices calls in any order, on buses   *)
(*             and files that make every return path happen                 *)
(***************************************************************************)
InitID ==
    /\ driver = "ok"
    /\ devdir = Dir(<<BusMaster1, Sensor1>>)
    /\ \E blob \in IdBlobs :
           idFiles = [n \in Names |-> IF n = Sensor1 THEN File(blob) ELSE NoFile]
    /\ statusFiles = [n \in Names |-> NoFile]
    /\ registry = <<>>
    /\ lastNew = NotNew
    /\ lastLoad = NotLoaded
    /\ lastRead = NotRead
    /\ handles = 0

NextID ==
    \/ NewDS1820
    \/ LoadDevices

SpecID == InitID /\ [][NextID]_vars

InitLoad ==
    /\ driver = "ok"
    /\ devdir = Dir(<<>>)
    /\ idFiles = [n \in Names |-> NoFile]
    /\ statusFiles = [n \in Names |-> NoFile]
    /\ registry = <<>>
    /\ lastNew = NotNew
    /\ lastLoad = NotLoaded
    /\ lastRead = NotRead
    /\ handles = 0

NextLoad ==
    \/ LoadDevices
    \/ HostPlug
    \/ HostUnplug
    \/ HostDirFault
    \/ HostDriver
    \/ HostWriteId

SpecLoad == InitLoad /\ [][NextLoad]_vars

\* the bus two sensors are on
HealthyDir == Dir(<<BusMaster1, Sensor1, Sensor2>>)

HealthyIds ==
    [n \in Names |-> IF n = Sensor1 THEN File(IdB20)
                     ELSE IF n = Sensor2 THEN File(IdS20) ELSE NoFile]

Init ==
    /\ driver = "ok"
    /\ devdir = HealthyDir
    /\ idFiles = HealthyIds
    /\ statusFiles = [n \in Names |-> IF n \in Sensors THEN File(<<>>) ELSE NoFile]
    /\ registry = LoadDevicesCall("ok", HealthyDir, HealthyIds).devices
    /\ lastNew = NotNew
    /\ lastLoad = [called |-> TRUE, outcome |-> "returned", err |-> Nil, cause |-> Nil,
                   found |-> LoadDevicesCall("ok", HealthyDir, HealthyIds).found,
                   log |-> LoadDevicesCall("ok", HealthyDir, HealthyIds).log]
    /\ lastRead = NotRead
    /\ handles = 0

Next ==
    \/ ReadDevices
    \/ HostAppend
    \/ HostTruncate
    \/ HostRemove

Spec == Init /\ [][Next]_vars

NextSigned ==
    \/ ReadDevices
    \/ HostAppendSigned
    \/ HostTruncate

SpecSigned == Init /\ [][NextSigned]_vars

NextFault ==
    \/ ReadDevices
    \/ HostAppend
    \/ HostTruncate
    \/ HostFault

SpecFault == Init /\ [][NextFault]_vars

InitHandles ==
    /\ driver = "ok"
    /\ devdir \in {HealthyDir, Dir(<<Sensor2, Sensor1>>), Dir(<<BusMaster1, Sensor1>>),
                   Dir(<<Sensor1>>), NoDir, Unreadable}
    /\ idFiles = HealthyIds
    /\ statusFiles = [n \in Names |->
                         IF n = Sensor1 THEN File(<<CrcYesLine, SampleLine>>)
                         ELSE IF n = Sensor2 THEN File(<<CrcNoLine, SampleLine>>)
                         ELSE NoFile]
    /\ registry = <<>>
    /\ lastNew = NotNew
    /\ lastLoad = NotLoaded
    /\ lastRead = NotRead
    /\ handles = 0

NextHandles ==
    \/ LoadDevices
    \/ ReadDevices
    \/ HostDriver
    \/ HostWriteId
    \/ HostRemove

SpecHandles == InitHandles /\ [][NextHandles]_vars

(***************************************************************************)
(* Properties.                                                              *)
(***************************************************************************)
\* the status file of the k-th device of the registry
StatusOf(k) == statusFiles[registry[k].Name]

\* the last ReadDevices call got as far as opening the k-th device
Reached(k) == lastRead.failedAt = 0 \/ k <= lastRead.failedAt

\* the last ReadDevices call read the k-th device without an error
ReadOk(k) == lastRead.failedAt = 0 \/ k < lastRead.failedAt

\* the line carries a CRC marker
HasCrcMarker(line) == Contains(line, CrcPrefix)

\* the digits that follow "t=" in a line that has "t=" and a digit
SampleDigits(line) ==
    LET p == CHOOSE x \in 1..Len(line) :
                 HasAt(line, x, SamplePrefix) /\ RunLen(line, x + 2, Digit) > 0
    IN  SubSeq(line, p + 2, p + 1 + RunLen(line, p + 2, Digit))

HasSampleDigits(line) ==
    \E x \in 1..Len(line) : HasAt(line, x, SamplePrefix) /\ RunLen(line, x + 2, Digit) > 0

\* 23.562
Temp23562 == <<23, 562>>

\* C1: when a ReadDevices call fails on device k, the files were opened in
\* registry order up to k, every device before k whose file holds a sample
\* line after line 1 has the new temperature, and every device from k on,
\* k included, has the LastTemp it had before the call.
C1_FailureLeavesTheRest ==
    (lastRead.called /\ lastRead.failedAt > 0) =>
        /\ \A j \in 1..Len(lastRead.opened) : lastRead.opened[j] = registry[j].Name
        /\ \A j \in 1..(lastRead.failedAt - 1) :
               (\E i \in 2..Len(StatusOf(j).data) : StatusOf(j).data[i] = SampleLine)
                   => registry[j].LastTemp = Temp23562
        /\ \A j \in lastRead.failedAt..Len(registry) :
               registry[j].LastTemp = lastRead.pre[j].LastTemp

\* C2: when the call reaches a device whose status file is empty or holds
\* only the CRC line, it fails there with "EOF without data" and the devices
\* after it keep their LastTemp.
C2_ExhaustedFileFails ==
    lastRead.called =>
        \A k \in 1..Len(registry) :
            (/\ Reached(k)
             /\ StatusOf(k).exists
             /\ StatusOf(k).data \in {<<>>, <<CrcYesLine>>})
                => /\ lastRead.err = ErrEOF
                   /\ lastRead.failedAt = k
                   /\ \A j \in (k + 1)..Len(registry) :
                          registry[j].LastTemp = lastRead.pre[j].LastTemp

\* C3: when the identity of some enumerated name cannot be decoded,
\* LoadDevices returns an error and no registry; it returns a registry only
\* when every enumerated name decoded.
C3_AllOrNothing ==
    lastLoad.called =>
        LET f == findDevices(driver, devdir)
            undecodable == f.err = Nil /\ \E i \in 1..Len(f.names) :
                               newDS1820(f.names[i], idFiles).err # Nil
        IN  /\ undecodable => /\ lastLoad.outcome = "returned"
                              /\ lastLoad.err # Nil
                              /\ registry = <<>>
            /\ (lastLoad.outcome = "returned" /\ lastLoad.err = Nil) => ~undecodable

\* C4: when the call reaches a device whose first status line carries a CRC
\* marker with a verdict other than YES, it fails there with the CRC
\* mismatch error and the device keeps its LastTemp, whatever follows.
C4_CrcGate ==
    lastRead.called =>
        \A k \in 1..Len(registry) :
            (/\ Reached(k)
             /\ StatusOf(k).exists
             /\ Len(StatusOf(k).data) >= 1
             /\ HasCrcMarker(StatusOf(k).data[1])
             /\ ~Contains(StatusOf(k).data[1], Yes))
                => /\ lastRead.err = ErrCRC
                   /\ lastRead.failedAt = k
                   /\ registry[k].LastTemp = lastRead.pre[k].LastTemp

\* a call failed on the CRC of a device whose second line is a sample, and
\* the device kept the zero LastTemp
C4_Witness ==
    /\ lastRead.called
    /\ lastRead.err = ErrCRC
    /\ lastRead.failedAt = 2
    /\ StatusOf(2).data = <<CrcNoLine, SampleLine>>
    /\ registry[2].LastTemp = ZeroTemp
    /\ registry[1].LastTemp = Temp23562

\* C5: a device whose status file is the CRC line with verdict YES and a
\* sample line t=-1250 is read without error and its LastTemp is -1.25.
C5_SignedSample ==
    lastRead.called =>
        \A k \in 1..Len(registry) :
            (Reached(k) /\ StatusOf(k).data = <<CrcYesLine, NegativeLine>>)
                => /\ ReadOk(k)
                   /\ registry[k].LastTemp = <<-2, 750>>

\* C6: when no entry of the directory listing is a device, LoadDevices
\* returns an error.
C6_NeverEmpty ==
    (/\ lastLoad.called
     /\ devdir.state = "ok"
     /\ \A i \in 1..Len(devdir.names) : Contains(devdir.names[i], BusMasterMarker))
        => /\ lastLoad.outcome = "returned"
           /\ lastLoad.err # Nil

\* C7: a device whose status file is a line with CRC verdict YES and a line
\* with t=<digits>, once read without error, has for LastTemp the value of
\* the digits divided by 1000.
C7_SampleParse ==
    lastRead.called =>
        \A k \in 1..Len(registry) :
            (/\ ReadOk(k)
             /\ StatusOf(k).exists
             /\ Len(StatusOf(k).data) = 2
             /\ HasCrcMarker(StatusOf(k).data[1])
             /\ Contains(StatusOf(k).data[1], Yes)
             /\ HasSampleDigits(StatusOf(k).data[2]))
                => LET v == DecimalValue(SampleDigits(StatusOf(k).data[2]))
                   IN  registry[k].LastTemp = <<v \div 1000, v % 1000>>

\* t=23562 was read as 23.562
C7_Witness ==
    /\ lastRead.called
    /\ lastRead.err = Nil
    /\ StatusOf(1).data = <<CrcYesLine, SampleLine>>
    /\ lastRead.pre[1].LastTemp = ZeroTemp
    /\ registry[1].LastTemp = Temp23562

\* the bytes of the id file of Sensor1
Blob == idFiles[Sensor1].data

\* C8: an id file of 8 bytes or more decodes to DS18B20 when its first byte
\* is 0x28, to DS18S20 when it is 0x10, and fails to decode for any other
\* first byte; every record of the registry is of one of the two types.
C8_FamilyCode ==
    /\ (lastNew.called /\ Len(Blob) >= 8) =>
           /\ Blob[1] = 40 =>
                  /\ ~lastNew.isNil
                  /\ lastNew.err = Nil
                  /\ lastNew.device.DeviceType = "DS18B20"
           /\ Blob[1] = 16 =>
                  /\ ~lastNew.isNil
                  /\ lastNew.err = Nil
                  /\ lastNew.device.DeviceType = "DS18S20"
           /\ Blob[1] \notin {16, 40} => lastNew.isNil /\ lastNew.err # Nil
    /\ \A i \in 1..Len(registry) : registry[i].DeviceType \in {"DS18S20", "DS18B20"}

\* a DS18S20 was decoded and LoadDevices returned it in a registry
C8_Witness ==
    /\ lastNew.called
    /\ ~lastNew.isNil
    /\ Blob[1] = 16
    /\ lastNew.device.DeviceType = "DS18S20"
    /\ lastLoad.called
    /\ Len(registry) = 1
    /\ registry[1].DeviceType = "DS18S20"

\* C9: the ID decoded from an id file is bytes 2 to 7 of the file, the two
\* high bytes zero: it is below 2^48 and depends on neither the family byte
\* nor the CRC byte; 0x00AABBCCDDEE0F28 gives 0xAABBCCDDEE0F, a DS18B20.
C9_SerialExtraction ==
    (lastNew.called /\ ~lastNew.isNil) =>
        /\ Len(lastNew.device.ID) = 8
        /\ \A i \in 1..6 : lastNew.device.ID[i] = Blob[i + 1]
        /\ lastNew.device.ID[7] = 0
        /\ lastNew.device.ID[8] = 0
        /\ SubSeq(Blob, 1, 8) = <<40, 15, 238, 221, 204, 187, 170, 0>> =>
               /\ lastNew.device.ID = <<15, 238, 221, 204, 187, 170, 0, 0>>
               /\ lastNew.device.DeviceType = "DS18B20"

\* the serial 0xAABBCCDDEE0F was decoded from an id file whose CRC byte is 0xff
C9_Witness ==
    /\ lastNew.called
    /\ ~lastNew.isNil
    /\ Blob[8] = 255
    /\ lastNew.device.ID = <<15, 238, 221, 204, 187, 170, 0, 0>>

\* C10: after a ReadDevices call, a second call on the same files leaves
\* every LastTemp as the first left it and returns the same error at the
\* same device.
C10_Idempotent ==
    lastRead.called =>
        LET again == ReadDevicesCall(registry, statusFiles)
        IN  /\ again.d = registry
            /\ again.err = lastRead.err
            /\ again.failedAt = lastRead.failedAt

\* a second call in a row that failed on the second device, the first
\* holding the temperature read
C10_Witness ==
    /\ lastRead.called
    /\ lastRead.pre = registry
    /\ lastRead.failedAt = 2
    /\ registry[1].LastTemp = Temp23562
    /\ registry[2].LastTemp = ZeroTemp

\* the name is not one of a bus master
NotBusMaster(name) == ~Contains(name, BusMasterMarker)

\* C11: from a listing of more than one entry findDevices returns the
\* entries whose name does not contain the bus master marker, each once and
\* nothing else; [w1_bus_master1, 28-0000aabbcc] gives [28-0000aabbcc].
C11_BusMasterExclusion ==
    (/\ lastLoad.called
     /\ driver = "ok"
     /\ devdir.state = "ok"
     /\ Len(devdir.names) > 1)
        => /\ \A i \in 1..Len(lastLoad.found) :
                  /\ NotBusMaster(lastLoad.found[i])
                  /\ \E j \in 1..Len(devdir.names) : devdir.names[j] = lastLoad.found[i]
           /\ \A j \in 1..Len(devdir.names) :
                  NotBusMaster(devdir.names[j])
                      => \E i \in 1..Len(lastLoad.found) :
                             lastLoad.found[i] = devdir.names[j]
           /\ \A i, j \in 1..Len(lastLoad.found) :
                  lastLoad.found[i] = lastLoad.found[j] => i = j
           /\ devdir.names = <<BusMaster1, Sensor1>> => lastLoad.found = <<Sensor1>>

\* the listing of the example gave the one sensor
C11_Witness ==
    /\ lastLoad.called
    /\ driver = "ok"
    /\ devdir = Dir(<<BusMaster1, Sensor1>>)
    /\ lastLoad.found = <<Sensor1>>

\* C12: from a listing of one entry or none findDevices returns the "no
\* devices found" error and no names, so LoadDevices returns an error and no
\* registry, also when the one entry is a sensor.
C12_EmptyBusRejection ==
    (/\ lastLoad.called
     /\ driver = "ok"
     /\ devdir.state = "ok"
     /\ Len(devdir.names) <= 1)
        => /\ lastLoad.outcome = "returned"
           /\ lastLoad.err = "Error finding one wire devices"
           /\ lastLoad.cause = "files in /sys/bus/w1/devies: no devices found"
           /\ lastLoad.found = <<>>
           /\ registry = <<>>

\* a bus of one good sensor and no bus master was rejected
C12_Witness ==
    /\ lastLoad.called
    /\ driver = "ok"
    /\ devdir = Dir(<<Sensor1>>)
    /\ idFiles[Sensor1] = File(IdB20)
    /\ lastLoad.cause = "files in /sys/bus/w1/devies: no devices found"

\* C13: when LoadDevices returns without error the registry has one record
\* for each name findDevices gave, the i-th record named by the i-th name,
\* and these are the sensors of the listing in the order of the listing.
C13_RegistryOrder ==
    (lastLoad.called /\ lastLoad.outcome = "returned" /\ lastLoad.err = Nil)
        => /\ Len(registry) = Len(lastLoad.found)
           /\ \A i \in 1..Len(registry) : registry[i].Name = lastLoad.found[i]
           /\ [i \in 1..Len(registry) |-> registry[i].Name]
                  = SelectSeq(devdir.names, NotBusMaster)

\* a listing that is not in alphabetical order gave a registry in its order
C13_Witness ==
    /\ lastLoad.called
    /\ lastLoad.err = Nil
    /\ devdir = Dir(<<Sensor1, BusMaster1, Sensor2>>)
    /\ Len(registry) = 2
    /\ registry[1].Name = Sensor1
    /\ registry[2].Name = Sensor2

\* C14: the first thing a LoadDevices call does is run modprobe; when that
\* fails the call does nothing else: it opens no directory and no id file,
\* and returns the error and no registry.
C14_ActivationFirst ==
    lastLoad.called =>
        /\ Len(lastLoad.log) >= 1
        /\ lastLoad.log[1].op = "modprobe"
        /\ \A i \in 2..Len(lastLoad.log) : lastLoad.log[i].op # "modprobe"
        /\ driver # "ok" =>
               /\ Len(lastLoad.log) = 1
               /\ lastLoad.outcome = "returned"
               /\ lastLoad.err = "Error finding one wire devices"
               /\ lastLoad.cause = "modprobe: exit status 1"
               /\ registry = <<>>

\* modprobe failed on a bus that has two good sensors
C14_Witness ==
    /\ lastLoad.called
    /\ driver = "fail"
    /\ devdir = Dir(<<BusMaster1, Sensor1, Sensor2>>)
    /\ idFiles[Sensor1] = File(IdB20)
    /\ idFiles[Sensor2] = File(IdS20)
    /\ lastLoad.err # Nil
    /\ Len(lastLoad.log) = 1

\* the lines of a file that a read delivers whole
Delivered(f) ==
    IF f.fault = "midline" THEN SubSeq(f.data, 1, Len(f.data) - 1) ELSE f.data

\* reading the file runs into the read error, and no line before it held a
\* sample
FaultBeforeSample(f) ==
    /\ f.exists
    /\ f.fault # "none"
    /\ ScanLines(Delivered(f), "none", 0, ZeroTemp).err = Nil
    /\ \A i \in 2..Len(Delivered(f)) : Len(TestSampleRegex(Delivered(f)[i])) = 0

\* C15: when the call reaches a device whose status file cannot be opened,
\* or whose read fails before a sample line was read, the call fails at that
\* device with "EOF without data".
C15_NoSwallowedFailure ==
    lastRead.called =>
        \A k \in 1..Len(registry) :
            (Reached(k) /\ (~StatusOf(k).exists \/ FaultBeforeSample(StatusOf(k))))
                => /\ lastRead.failedAt = k
                   /\ lastRead.err = ErrEOF

\* C16: when the call reaches a device whose file has a first line with the
\* CRC verdict YES and a sample line anywhere after it, the read of that
\* device does not fail and the device has the sample's temperature.
C16_SampleOnAnyLine ==
    lastRead.called =>
        \A k \in 1..Len(registry) :
            (/\ Reached(k)
             /\ StatusOf(k).exists
             /\ Len(StatusOf(k).data) >= 2
             /\ StatusOf(k).data[1] = CrcYesLine
             /\ \E i \in 2..Len(StatusOf(k).data) : StatusOf(k).data[i] = SampleLine)
                => /\ ReadOk(k)
                   /\ registry[k].LastTemp = Temp23562

\* C17: a ReadDevices call changes the LastTemp of a device only when the
\* first line of its file carries a CRC marker with the verdict YES.
C17_StoreOnlyAfterCrcYes ==
    lastRead.called =>
        \A k \in 1..Len(registry) :
            registry[k].LastTemp # lastRead.pre[k].LastTemp
                => /\ Len(StatusOf(k).data) >= 1
                   /\ Len(CrcCheckRegex(StatusOf(k).data[1])) > 0
                   /\ CrcCheckRegex(StatusOf(k).data[1])[2] = Yes

\* C18: between calls no file handle is open: every LoadDevices call closes
\* what it opened, and every ReadDevices call has closed, when it returns,
\* each file it opened, whether it returns an error or not.
C18_NoOpenHandles ==
    /\ handles = 0
    /\ lastLoad.called =>
           /\ OpenAfter(lastLoad.log) = 0
           /\ \A n \in 1..Len(lastLoad.log) : OpenAfter(SubSeq(lastLoad.log, 1, n)) >= 0
    /\ lastRead.called =>
           /\ Len(lastRead.closed) = Len(lastRead.opened)
           /\ \A i \in 1..Len(lastRead.opened) :
                  \E j \in 1..Len(lastRead.closed) :
                      lastRead.closed[j] = lastRead.opened[i]

\* a ReadDevices call that failed on the second of the two files it opened,
\* on the registry of a LoadDevices call that opened the directory and two
\* id files
C18_Witness ==
    /\ lastLoad.called
    /\ Len(lastLoad.log) > 4
    /\ lastRead.called
    /\ lastRead.err = ErrCRC
    /\ Len(lastRead.opened) = 2
    /\ handles = 0

\* C19: whatever ReadDevices calls were made, the registry has the records
\* LoadDevices built, in the same order, each with the ID, the name and the
\* type it was built with.
C19_OnlyLastTempChanges ==
    LET built == LoadDevicesCall(driver, devdir, idFiles).devices
    IN  /\ Len(registry) = Len(built)
        /\ \A i \in 1..Len(registry) :
               /\ registry[i].ID = built[i].ID
               /\ registry[i].Name = built[i].Name
               /\ registry[i].DeviceType = built[i].DeviceType
        /\ lastRead.called =>
               /\ Len(lastRead.pre) = Len(registry)
               /\ \A i \in 1..Len(registry) :
                      [registry[i] EXCEPT !.LastTemp = ZeroTemp]
                          = [lastRead.pre[i] EXCEPT !.LastTemp = ZeroTemp]

\* a call that changed the temperature of the first record and failed on the
\* second
C19_Witness ==
    /\ lastRead.called
    /\ lastRead.failedAt = 2
    /\ lastRead.pre[1].LastTemp = ZeroTemp
    /\ registry[1].LastTemp = Temp23562
    /\ registry[1].Name = Sensor1
    /\ registry[2].Name = Sensor2

====
